---- MODULE Spec2Model ----
(***************************************************************************)
(* Model of the Walver client (src/src/client.ts): one call of a public    *)
(* method of class Walver, from its invocation to the settlement of the    *)
(* promise it returns.  The synchronous part of a method (everything up to *)
(* its first await) is one action; the transport's answer and the          *)
(* continuation after the await are further actions.                       *)
(*                                                                         *)
(* JavaScript values are tagged records, so that undefined, "", 0, false   *)
(* and [] stay distinct and truthiness is computed as JavaScript does.     *)
(***************************************************************************)
EXTENDS Integers, Sequences, FiniteSets, TLC

VARIABLES pc, options, call, requests, reply, result, warnings

vars == <<pc, options, call, requests, reply, result, warnings>>

(***************************************************************************)
(* Bounds of the model.                                                    *)
(***************************************************************************)
\* largest number of optional keys the caller sets in one options object
MaxKeys == 4

(***************************************************************************)
(* JavaScript values.                                                      *)
(***************************************************************************)
Undefined == [t |-> "undefined"]
Str(s) == [t |-> "string", v |-> s]
Bool(b) == [t |-> "boolean", v |-> b]
Num(n) == [t |-> "number", v |-> n]
Arr(a) == [t |-> "array", v |-> a]
\* a Date: its time value, split in days since the epoch and ms in the day
DateOf(days, ms) == [t |-> "Date", v |-> <<days, ms>>]

IsUndefined(x) == x.t = "undefined"

\* ToBoolean: undefined, "", 0 and false are falsy; arrays and Dates are truthy
Truthy(x) ==
    CASE x.t = "undefined" -> FALSE
      [] x.t = "string" -> Len(x.v) > 0
      [] x.t = "number" -> x.v # 0
      [] x.t = "boolean" -> x.v
      [] OTHER -> TRUE

\* String.prototype.startsWith
StartsWith(s, prefix) ==
    /\ Len(s) >= Len(prefix)
    /\ SubSeq(s, 1, Len(prefix)) = prefix

Digit(d) == SubSeq("0123456789", d + 1, d + 1)
Pad2(n) == Digit((n \div 10) % 10) \o Digit(n % 10)
Pad3(n) == Digit((n \div 100) % 10) \o Pad2(n)
Pad4(n) == Digit((n \div 1000) % 10) \o Pad3(n)

\* Date.prototype.toISOString for a valid date from 1970 to 9999
toISOString(tv) ==
    LET days == tv[1]
        ms == tv[2]
        z == days + 719468
        era == z \div 146097
        doe == z - era * 146097
        yoe == (doe - doe \div 1460 + doe \div 36524 - doe \div 146096) \div 365
        doy == doe - (365 * yoe + yoe \div 4 - yoe \div 100)
        mp == (5 * doy + 2) \div 153
        d == doy - (153 * mp + 2) \div 5 + 1
        m == IF mp < 10 THEN mp + 3 ELSE mp - 9
        y == yoe + era * 400 + (IF m <= 2 THEN 1 ELSE 0)
    IN  Pad4(y) \o "-" \o Pad2(m) \o "-" \o Pad2(d) \o "T"
        \o Pad2(ms \div 3600000) \o ":" \o Pad2((ms \div 60000) % 60) \o ":"
        \o Pad2((ms \div 1000) % 60) \o "." \o Pad3(ms % 1000) \o "Z"

(***************************************************************************)
(* VerificationOptions and the option objects a caller passes.             *)
(***************************************************************************)
RequiredKeys == <<"id", "service_name", "chain">>

OptionalKeys ==
    <<"internal_id", "webhook", "expiration", "secret", "redirect_url",
      "one_time", "folder_id", "custom_fields", "token_gate", "token_address",
      "token_amount", "is_nft", "force_email_verification",
      "force_telegram_verification", "force_twitter_verification",
      "force_telephone_verification", "force_discord_verification">>

Range(s) == {s[i] : i \in DOMAIN s}

VerificationKeys == Range(RequiredKeys) \cup Range(OptionalKeys)

Channels == <<"email", "telegram", "twitter", "telephone", "discord">>

\* the custom_fields arrays the model draws from: empty, one field of each channel
\* or of another type (with or without further attributes), and two fields of
\* different types
CustomFieldArrays ==
    {Arr(<<>>),
      Arr(<<[type |-> "email", label |-> "Your Email", required |-> TRUE]>>),
      Arr(<<[type |-> "email"]>>), Arr(<<[type |-> "telegram"]>>),
      Arr(<<[type |-> "twitter"]>>), Arr(<<[type |-> "telephone"]>>),
      Arr(<<[type |-> "discord"]>>), Arr(<<[type |-> "text"]>>),
      Arr(<<[type |-> "text"], [type |-> "email"]>>),
      Arr(<<[type |-> "discord"], [type |-> "telegram"]>>)}

Booleans == {Bool(TRUE), Bool(FALSE)}

\* the values the caller may give to an optional key
OptionValues(k) ==
    CASE k = "internal_id" -> {Str("i1")}
      [] k = "webhook" ->
            {Str(""), Str("http://example.com"), Str("https:/"),
             Str("https://example.com/hook")}
      [] k = "expiration" -> {Str("2030-01-01T00:00:00.000Z"), DateOf(20397, 3723004)}
      [] k = "secret" -> {Str("s3cret")}
      [] k = "redirect_url" -> {Str("https://your-service.com/callback")}
      [] k = "folder_id" -> {Str(""), Str("f1")}
      [] k = "custom_fields" -> CustomFieldArrays
      [] k = "token_address" -> {Str(""), Str("0xT0KEN")}
      [] k = "token_amount" -> {Num(0), Num(1)}
      [] OTHER -> Booleans

\* an options object with the required keys only: every other key is Undefined
RequiredOnly ==
    [k \in VerificationKeys |->
        CASE k = "id" -> Str("v1")
          [] k = "service_name" -> Str("Acme")
          [] k = "chain" -> Str("ETH")
          [] OTHER -> Undefined]

\* the optional keys an options object sets
KeysSet(o) == {i \in DOMAIN OptionalKeys : ~IsUndefined(o[OptionalKeys[i]])}

(***************************************************************************)
(* Errors, transport outcomes and promise outcomes.                        *)
(***************************************************************************)
NoResponse == [present |-> FALSE, status |-> 0]
Response(status) == [present |-> TRUE, status |-> status]

\* new Error(message)
NewError(message) == [name |-> "Error", message |-> message, response |-> NoResponse]

\* the error the transport rejects with when the service answers with an error status
StatusError(status) ==
    [name |-> "AxiosError", message |-> "Request failed with status code",
     response |-> Response(status)]

\* the error the transport rejects with when no response arrives
NetworkError(message) ==
    [name |-> "AxiosError", message |-> message, response |-> NoResponse]

Conflict == 409

ErrorStatuses == {400, Conflict, 500}

TransportErrors ==
    {StatusError(st) : st \in ErrorStatuses}
    \cup {NetworkError("timeout of 10000ms exceeded"), NetworkError("Network Error")}

\* the response bodies the service may answer with (opaque to the client)
ResponseBodies == {"body-1", "body-2"}

NoError == [name |-> "none", message |-> "", response |-> NoResponse]

Pending == [state |-> "pending", value |-> "", reason |-> NoError]
Fulfilled(value) == [state |-> "fulfilled", value |-> value, reason |-> NoError]
Rejected(error) == [state |-> "rejected", value |-> "", reason |-> error]

NoReply == [kind |-> "none", data |-> "", error |-> NoError]
ReplyData(body) == [kind |-> "response", data |-> body, error |-> NoError]
ReplyError(error) == [kind |-> "error", data |-> "", error |-> error]

Request(method, path, payload) == [method |-> method, path |-> path, payload |-> payload]

(***************************************************************************)
(* createVerification: the synchronous part.                               *)
(***************************************************************************)
MsgPresence == "If no folder_id is provided, webhook is required"
MsgScheme == "webhook must start with https://"
MsgTokenAddress == "token_address is required when using token gate"
MsgTokenAmount == "token_amount is required when using token gate"
MsgForce(c) ==
    "custom_fields[" \o c \o "] is required when using force_" \o c \o "_verification"
MsgSecret == "Warning: secret is highly recommended when using webhooks"

ForceKey(c) == "force_" \o c \o "_verification"

\* the defaults of the destructuring pattern
Defaults ==
    [k \in {"one_time", "token_gate", "is_nft"} \cup {ForceKey(c) : c \in Range(Channels)}
           \cup {"custom_fields"} |->
        IF k = "custom_fields" THEN Arr(<<>>) ELSE Bool(FALSE)]

\* const { id, ..., one_time = false, ... } = options
Destructure(opts) ==
    [k \in VerificationKeys |->
        IF k \in DOMAIN Defaults /\ IsUndefined(opts[k]) THEN Defaults[k]
        ELSE opts[k]]

FormatExpiration(expiration) ==
    IF expiration.t = "Date" THEN Str(toISOString(expiration.v)) ELSE expiration

\* const data = { id, ..., expiration: formattedExpiration, ... }
BuildData(d) ==
    [k \in VerificationKeys |->
        IF k = "expiration" THEN FormatExpiration(d[k]) ELSE d[k]]

\* RemoveUndefined without the deletion: every key stays in the payload
RemoveUndefined_Nothing(data) == data

\* Object.keys(data).forEach(key => { if (data[key] === undefined) delete data[key] })
RemoveUndefined(data) ==
    [k \in {j \in DOMAIN data : ~IsUndefined(data[j])} |-> data[k]]

\* the presence check with || in place of &&
MissingFolderOrWebhook(d) == ~Truthy(d.folder_id) \/ ~Truthy(d.webhook)

\* the presence check looking at webhook alone
MissingWebhook(d) == ~Truthy(d.webhook)

\* !folder_id && !webhook
MissingFolderAndWebhook(d) == ~Truthy(d.folder_id) /\ ~Truthy(d.webhook)

\* webhook && !secret
WebhookWithoutSecret(d) == Truthy(d.webhook) /\ ~Truthy(d.secret)

\* the scheme check accepting every webhook that starts with "http"
BadWebhookScheme_Http(d) == Truthy(d.webhook) /\ ~StartsWith(d.webhook.v, "http")

\* webhook && !webhook.startsWith('https://')
BadWebhookScheme(d) == Truthy(d.webhook) /\ ~StartsWith(d.webhook.v, "https://")

\* the token gate block testing token_amount against undefined only
TokenGateError_UnsetOnly(d) ==
    IF Truthy(d.token_gate)
    THEN IF ~Truthy(d.token_address) THEN MsgTokenAddress
         ELSE IF IsUndefined(d.token_amount) THEN MsgTokenAmount
         ELSE ""
    ELSE ""

\* the message thrown by the token gate block, "" when it throws nothing
TokenGateError(d) ==
    IF Truthy(d.token_gate)
    THEN IF ~Truthy(d.token_address) THEN MsgTokenAddress
         ELSE IF ~Truthy(d.token_amount) THEN MsgTokenAmount
         ELSE ""
    ELSE ""

\* the search accepting a field of any channel
SomeOfType_AnyChannel(fields, c) ==
    \E i \in DOMAIN fields : fields[i].type \in Range(Channels)

\* custom_fields.some(field => field.type === c)
SomeOfType(fields, c) == \E i \in DOMAIN fields : fields[i].type = c

\* the message thrown by the block of force_<c>_verification, "" when it throws nothing
ForceError(d, c) ==
    IF Truthy(d[ForceKey(c)])
    THEN IF ~Truthy(d.custom_fields) \/ Len(d.custom_fields.v) = 0 THEN MsgForce(c)
         ELSE IF ~SomeOfType(d.custom_fields.v, c) THEN MsgForce(c)
         ELSE ""
    ELSE ""

\* the five force blocks in source order, from the i-th on
RECURSIVE ForceErrors(_, _)
ForceErrors(d, i) ==
    IF i > Len(Channels) THEN ""
    ELSE IF ForceError(d, Channels[i]) # "" THEN ForceError(d, Channels[i])
    ELSE ForceErrors(d, i + 1)

Threw(message, warned) == [threw |-> TRUE, message |-> message, warned |-> warned]
Passed(warned) == [threw |-> FALSE, message |-> "", warned |-> warned]

\* the checks with the warning moved after the scheme check
Validate_WarnAfterScheme(d) ==
    IF MissingFolderAndWebhook(d) THEN Threw(MsgPresence, <<>>)
    ELSE IF BadWebhookScheme(d) THEN Threw(MsgScheme, <<>>)
    ELSE LET warned == IF WebhookWithoutSecret(d) THEN <<MsgSecret>> ELSE <<>>
         IN  IF TokenGateError(d) # "" THEN Threw(TokenGateError(d), warned)
             ELSE IF ForceErrors(d, 1) # "" THEN Threw(ForceErrors(d, 1), warned)
             ELSE Passed(warned)

\* the checks of createVerification in source order: what is thrown and what is logged
Validate(d) ==
    IF MissingFolderAndWebhook(d) THEN Threw(MsgPresence, <<>>)
    ELSE LET warned == IF WebhookWithoutSecret(d) THEN <<MsgSecret>> ELSE <<>>
         IN  IF BadWebhookScheme(d) THEN Threw(MsgScheme, warned)
             ELSE IF TokenGateError(d) # "" THEN Threw(TokenGateError(d), warned)
             ELSE IF ForceErrors(d, 1) # "" THEN Threw(ForceErrors(d, 1), warned)
             ELSE Passed(warned)

\* the payload POSTed to /new
Payload(opts) == RemoveUndefined(BuildData(Destructure(opts)))

(***************************************************************************)
(* The state machine.                                                      *)
(***************************************************************************)
Init ==
    /\ pc = "idle"
    /\ options = RequiredOnly
    /\ call = [method |-> "none", args |-> <<>>]
    /\ requests = <<>>
    /\ reply = NoReply
    /\ result = Pending
    /\ warnings = <<>>

\* a method whose synchronous part issues one request and awaits it
Issue(method, args, request) ==
    /\ pc = "idle"
    /\ call' = [method |-> method, args |-> args]
    /\ requests' = Append(requests, request)
    /\ pc' = "awaiting"
    /\ UNCHANGED <<options, reply, result, warnings>>

Names == {"n1"}
Ids == {"x1", "x2"}
Descriptions == {Undefined, Str("about")}
FolderFields == {Undefined, Arr(<<>>), Arr(<<[type |-> "email"]>>)}

createFolder ==
    \E name \in Names, description \in Descriptions, customFields \in FolderFields :
        Issue("createFolder", <<name, description, customFields>>,
              Request("POST", "/creator/folders",
                      [name |-> Str(name), description |-> description,
                       custom_fields |-> IF Truthy(customFields) THEN customFields
                                         ELSE Arr(<<>>)]))

getFolders == Issue("getFolders", <<>>, Request("GET", "/creator/folders", Undefined))

getFolder ==
    \E folderId \in Ids :
        Issue("getFolder", <<folderId>>,
              Request("GET", "/creator/folders/" \o folderId, Undefined))

getFolderVerifications ==
    \E folderId \in Ids :
        Issue("getFolderVerifications", <<folderId>>,
              Request("GET", "/creator/folders/" \o folderId \o "/verifications",
                      Undefined))

createApiKey ==
    \E name \in Names, description \in Descriptions :
        Issue("createApiKey", <<name, description>>,
              Request("POST", "/creator/api-keys",
                      [name |-> Str(name), description |-> description]))

getApiKeys == Issue("getApiKeys", <<>>, Request("GET", "/creator/api-keys", Undefined))

deleteApiKey ==
    \E apiKeyId \in Ids :
        Issue("deleteApiKey", <<apiKeyId>>,
              Request("DELETE", "/creator/api-keys/" \o apiKeyId, Undefined))

\* the caller writes an options object: first the required keys
NewOptions ==
    /\ pc = "idle"
    /\ pc' = "options"
    /\ options' = RequiredOnly
    /\ UNCHANGED <<call, requests, reply, result, warnings>>

\* the caller sets one more optional key of the options object (in the order of
\* the interface, at most MaxKeys of them)
SetOption ==
    /\ pc = "options"
    /\ Cardinality(KeysSet(options)) < MaxKeys
    /\ \E i \in DOMAIN OptionalKeys :
        /\ \A j \in KeysSet(options) : j < i
        /\ \E val \in OptionValues(OptionalKeys[i]) :
            options' = [options EXCEPT ![OptionalKeys[i]] = val]
    /\ UNCHANGED <<pc, call, requests, reply, result, warnings>>

\* createVerification(options) up to its await: the checks, then the POST to /new
createVerification ==
    /\ pc = "options"
    /\ LET checked == Validate(Destructure(options))
       IN  /\ call' = [method |-> "createVerification", args |-> <<>>]
           /\ warnings' = warnings \o checked.warned
           /\ IF checked.threw
              THEN /\ result' = Rejected(NewError(checked.message))
                   /\ pc' = "settled"
                   /\ UNCHANGED requests
              ELSE /\ requests' = Append(requests, Request("POST", "/new", Payload(options)))
                   /\ pc' = "awaiting"
                   /\ UNCHANGED result
    /\ UNCHANGED <<options, reply>>

\* the transport resolves the request with a response
HttpRespond ==
    /\ pc = "awaiting"
    /\ \E body \in ResponseBodies : reply' = ReplyData(body)
    /\ pc' = "replied"
    /\ UNCHANGED <<options, call, requests, result, warnings>>

\* the transport rejects the request: an error status, a timeout, a network error
HttpFail ==
    /\ pc = "awaiting"
    /\ \E error \in TransportErrors : reply' = ReplyError(error)
    /\ pc' = "replied"
    /\ UNCHANGED <<options, call, requests, result, warnings>>

\* _get, _post, _delete after the await: response.data, or the rejection as it is
PrimitiveOutcome(r) ==
    IF r.kind = "response" THEN Fulfilled(r.data) ELSE Rejected(r.error)

\* the catch block translating every error that has a response
CatchNew_AnyStatus(error) ==
    IF error.response.present
    THEN NewError("ID for the verification already exists. Choose another ID.")
    ELSE error

\* the catch block of createVerification
CatchNew(error) ==
    IF error.response.present /\ error.response.status = Conflict
    THEN NewError("ID for the verification already exists. Choose another ID.")
    ELSE error

\* a pass-through method returns the promise of its primitive
SettlePassThrough ==
    /\ pc = "replied"
    /\ call.method # "createVerification"
    /\ result' = PrimitiveOutcome(reply)
    /\ pc' = "settled"
    /\ UNCHANGED <<options, call, requests, reply, warnings>>

\* the continuation posting again after a conflict
SettleCreateVerification_Retry ==
    /\ pc = "replied"
    /\ call.method = "createVerification"
    /\ IF reply.kind = "error" /\ reply.error.response = Response(Conflict)
       THEN /\ requests' = Append(requests, requests[Len(requests)])
            /\ pc' = "awaiting"
            /\ UNCHANGED result
       ELSE /\ result' = PrimitiveOutcome(reply)
            /\ pc' = "settled"
            /\ UNCHANGED requests
    /\ UNCHANGED <<options, call, reply, warnings>>

\* try { return await this._post('/new', data) } catch (error) { ... }
SettleCreateVerification ==
    /\ pc = "replied"
    /\ call.method = "createVerification"
    /\ LET outcome == PrimitiveOutcome(reply)
       IN  result' = IF outcome.state = "rejected"
                     THEN Rejected(CatchNew(outcome.reason))
                     ELSE outcome
    /\ pc' = "settled"
    /\ UNCHANGED <<options, call, requests, reply, warnings>>

Next ==
    \/ createFolder
    \/ getFolders
    \/ getFolder
    \/ getFolderVerifications
    \/ createApiKey
    \/ getApiKeys
    \/ deleteApiKey
    \/ NewOptions
    \/ SetOption
    \/ createVerification
    \/ HttpRespond
    \/ HttpFail
    \/ SettlePassThrough
    \/ SettleCreateVerification

Spec == Init /\ [][Next]_vars


(***************************************************************************)
(* Vocabulary of the properties, stated on the caller's options and not    *)
(* through the operators of the model.                                     *)
(***************************************************************************)
\* a call of createVerification has been made
Called == call.method = "createVerification"

\* a string option that is set and not empty
Supplied(x) == x.t = "string" /\ x.v # ""

\* a boolean option given as true
IsTrue(x) == x.t = "boolean" /\ x.v = TRUE

\* a numeric option that is set and not zero
NonZero(x) == x.t = "number" /\ x.v # 0

HasHttpsPrefix(w) ==
    /\ Len(w) >= 8
    /\ \A i \in 1..8 : SubSeq(w, i, i) = SubSeq("https://", i, i)

HasFieldOfType(fields, c) ==
    /\ fields.t = "array"
    /\ \E i \in 1..Len(fields.v) : fields.v[i].type = c

PresenceViolated(o) == ~Supplied(o.folder_id) /\ ~Supplied(o.webhook)
SchemeViolated(o) == Supplied(o.webhook) /\ ~HasHttpsPrefix(o.webhook.v)
TokenAddressViolated(o) == IsTrue(o.token_gate) /\ ~Supplied(o.token_address)
TokenAmountViolated(o) == IsTrue(o.token_gate) /\ ~NonZero(o.token_amount)
ForceViolated(o, c) == IsTrue(o[ForceKey(c)]) /\ ~HasFieldOfType(o.custom_fields, c)

ForceMessages == {MsgForce(c) : c \in Range(Channels)}

ValidationMessages ==
    {MsgPresence, MsgScheme, MsgTokenAddress, MsgTokenAmount} \cup ForceMessages

\* the call ended in a validation error: thrown before any request was issued
ValidationFailed ==
    /\ pc = "settled"
    /\ result.state = "rejected"
    /\ result.reason.name = "Error"
    /\ result.reason.message \in ValidationMessages
    /\ requests = <<>>
    /\ reply = NoReply

\* the call ended in the validation error with this message
FailedWith(message) == ValidationFailed /\ result.reason.message = message

\* the message of the first rule of the stated order that the options violate,
\* "" when they violate none
FirstViolated(o) ==
    IF PresenceViolated(o) THEN MsgPresence
    ELSE IF SchemeViolated(o) THEN MsgScheme
    ELSE IF TokenAddressViolated(o) THEN MsgTokenAddress
    ELSE IF TokenAmountViolated(o) THEN MsgTokenAmount
    ELSE IF ForceViolated(o, "email") THEN MsgForce("email")
    ELSE IF ForceViolated(o, "telegram") THEN MsgForce("telegram")
    ELSE IF ForceViolated(o, "twitter") THEN MsgForce("twitter")
    ELSE IF ForceViolated(o, "telephone") THEN MsgForce("telephone")
    ELSE IF ForceViolated(o, "discord") THEN MsgForce("discord")
    ELSE ""

\* the channels checked before channel c
Before(c) ==
    {Channels[j] : j \in {i \in DOMAIN Channels : \E k \in DOMAIN Channels :
                                                    Channels[k] = c /\ i < k}}

\* no rule checked before the force check of channel c is violated
NothingBefore(o, c) ==
    /\ ~PresenceViolated(o)
    /\ ~SchemeViolated(o)
    /\ ~TokenAddressViolated(o)
    /\ ~TokenAmountViolated(o)
    /\ \A b \in Before(c) : ~ForceViolated(o, b)

C3_TokenGate ==
    Called =>
        /\ (TokenAddressViolated(options) \/ TokenAmountViolated(options)) =>
               ValidationFailed
        /\ ~IsTrue(options.token_gate) =>
               /\ result.reason.message \notin {MsgTokenAddress, MsgTokenAmount}
               /\ ValidationFailed <=> FirstViolated(options) # ""

C3_Witness ==
    /\ Called
    /\ IsTrue(options.token_gate)
    /\ options.token_address = Str("0xT0KEN")
    /\ options.token_amount = Num(0)
    /\ FailedWith(MsgTokenAmount)

(***************************************************************************)
(* C4 as stated.  For each channel c, force_<c>_verification true with no  *)
(* custom field of type c makes the call fail with the validation error    *)
(* naming channel c.                                                       *)
(***************************************************************************)
C4_AsStated ==
    \A c \in Range(Channels) :
        (Called /\ ForceViolated(options, c)) => FailedWith(MsgForce(c))

(***************************************************************************)
(* C4 as amended.  For each channel c, force_<c>_verification true with no *)
(* custom field of type c makes the call fail with a validation error,     *)
(* which names channel c when no rule checked earlier is violated; with a  *)
(* custom field of type c no error naming c is raised.  The precondition   *)
(* looks at fields of type c only, so a field of another channel never     *)
(* satisfies the check of c.                                               *)
(***************************************************************************)
C4_ForceChannel ==
    \A c \in Range(Channels) :
        Called =>
            /\ ForceViolated(options, c) =>
                   /\ ValidationFailed
                   /\ NothingBefore(options, c) => FailedWith(MsgForce(c))
            /\ HasFieldOfType(options.custom_fields, c) =>
                   result.reason.message # MsgForce(c)

C4_Witness ==
    /\ Called
    /\ options.folder_id = Str("f1")
    /\ IsTrue(options.force_email_verification)
    /\ options.custom_fields = Arr(<<[type |-> "telegram"]>>)
    /\ FailedWith(MsgForce("email"))

(***************************************************************************)
(* C5 as stated.  For accepted options, every key the caller left unset is *)
(* absent from the payload POSTed to /new.                                 *)
(***************************************************************************)
C5_AsStated ==
    (Called /\ Len(requests) > 0) =>
        \A k \in VerificationKeys :
            IsUndefined(options[k]) => k \notin DOMAIN requests[1].payload

\* the keys the destructuring gives a default to
DefaultedKeys ==
    {"one_time", "custom_fields", "token_gate", "is_nft",
     "force_email_verification", "force_telegram_verification",
     "force_twitter_verification", "force_telephone_verification",
     "force_discord_verification"}

(***************************************************************************)
(* C5 as amended.  For accepted options, every unset key that has no       *)
(* default (internal_id, webhook, expiration, secret, redirect_url,         *)
(* folder_id, token_address, token_amount) is absent from the payload      *)
(* POSTed to /new, and no key of the payload is undefined; an unset key    *)
(* that has a default is present with it: false for one_time, token_gate,  *)
(* is_nft and the five force flags, the empty array for custom_fields.     *)
(***************************************************************************)
C5_UnsetKeys ==
    (Called /\ Len(requests) > 0) =>
        LET payload == requests[1].payload
        IN  /\ \A k \in DOMAIN payload : payload[k].t # "undefined"
            /\ \A k \in VerificationKeys :
                   IsUndefined(options[k]) =>
                       IF k \in DefaultedKeys
                       THEN /\ k \in DOMAIN payload
                            /\ payload[k] = IF k = "custom_fields" THEN Arr(<<>>)
                                            ELSE Bool(FALSE)
                       ELSE k \notin DOMAIN payload

C5_Witness ==
    /\ Called
    /\ pc = "awaiting"
    /\ options.folder_id = Str("f1")
    /\ IsUndefined(options.webhook)
    /\ IsUndefined(options.one_time)
    /\ "webhook" \notin DOMAIN requests[1].payload
    /\ requests[1].payload.one_time = Bool(FALSE)

(***************************************************************************)
(* C6.  When the POST to /new fails with a response of status 409 the call *)
(* fails with the fixed duplicate-ID message; for every other failure of   *)
(* the POST (another status, or no response) it fails with the very error  *)
(* the transport gave.                                                     *)
(***************************************************************************)
C6_ConflictTranslation ==
    (Called /\ pc = "settled" /\ reply.kind = "error") =>
        IF reply.error.response.present /\ reply.error.response.status = 409
        THEN result = Rejected([name |-> "Error",
                                message |-> "ID for the verification already exists. Choose another ID.",
                                response |-> NoResponse])
        ELSE result = Rejected(reply.error)

C6_Witness ==
    /\ Called
    /\ pc = "settled"
    /\ reply.error.response = Response(409)
    /\ result.reason.message = "ID for the verification already exists. Choose another ID."

\* createVerification({id, service_name, chain, folder_id: 'f1'})
FolderOnlyOptions == [RequiredOnly EXCEPT !.folder_id = Str("f1")]

(***************************************************************************)
(* C7.  A call with only id, service_name, chain and folder_id passes      *)
(* every check, issues exactly one POST to /new whose payload has the      *)
(* folder_id and no webhook key, and returns the response body unmodified. *)
(***************************************************************************)
C7_FolderOnly ==
    (Called /\ options = FolderOnlyOptions) =>
        /\ ~ValidationFailed
        /\ Len(requests) = 1
        /\ requests[1].method = "POST"
        /\ requests[1].path = "/new"
        /\ requests[1].payload.folder_id = Str("f1")
        /\ requests[1].payload.id = Str("v1")
        /\ "webhook" \notin DOMAIN requests[1].payload
        /\ (pc = "settled" /\ reply.kind = "response") => result = Fulfilled(reply.data)

C7_Witness ==
    /\ Called
    /\ options = FolderOnlyOptions
    /\ pc = "settled"
    /\ Len(requests) = 1
    /\ result = Fulfilled("body-2")

\* the call the README shows: redirect_url, one_time and one email custom field
ReadmeOptions ==
    [RequiredOnly EXCEPT
        !.redirect_url = Str("https://your-service.com/callback"),
        !.one_time = Bool(TRUE),
        !.custom_fields =
            Arr(<<[type |-> "email", label |-> "Your Email", required |-> TRUE]>>)]

(***************************************************************************)
(* C8.  The call the README shows is accepted, is sent as a POST to /new   *)
(* and resolves to the response of the service.                            *)
(***************************************************************************)
C8_ReadmeCall ==
    (Called /\ options = ReadmeOptions) =>
        /\ Len(requests) = 1
        /\ requests[1].method = "POST"
        /\ requests[1].path = "/new"
        /\ (pc = "settled" /\ reply.kind = "response") => result = Fulfilled(reply.data)

(***************************************************************************)
(* C9.  A call of a public method issues at most one request in its whole  *)
(* life: once the request has failed (any status, 409 on /new included, or *)
(* no response) the call ends in an error with that one request, and a     *)
(* call that ends in a validation error has issued none.                   *)
(***************************************************************************)
C9_AtMostOneRequest ==
    /\ Len(requests) <= 1
    /\ (pc \in {"awaiting", "replied"}) => Len(requests) = 1
    /\ (pc = "settled" /\ reply.kind = "error") =>
           /\ result.state = "rejected"
           /\ Len(requests) = 1
    /\ (pc = "settled" /\ reply.kind = "none") =>
           /\ ValidationFailed
           /\ Len(requests) = 0

C9_Witness ==
    /\ Called
    /\ pc = "settled"
    /\ reply.error.response = Response(409)
    /\ result.state = "rejected"
    /\ Len(requests) = 1

\* what the call has thrown in its synchronous part, "" when nothing
Thrown == IF ValidationFailed THEN result.reason.message ELSE ""

(***************************************************************************)
(* C10 as stated.  The checks run in the order presence, webhook scheme,   *)
(* missing-secret warning, token gate (address, then amount), force checks *)
(* (email, telegram, twitter, telephone, discord): the error is that of    *)
(* the first violated rule and the warning is logged only when the scheme  *)
(* check has passed.                                                       *)
(***************************************************************************)
C10_AsStated ==
    Called =>
        /\ Thrown = FirstViolated(options)
        /\ warnings = IF /\ ~PresenceViolated(options)
                         /\ ~SchemeViolated(options)
                         /\ Supplied(options.webhook)
                         /\ ~Supplied(options.secret)
                      THEN <<MsgSecret>>
                      ELSE <<>>

(***************************************************************************)
(* C10 as amended.  The checks run in the order presence, missing-secret   *)
(* warning, webhook scheme, token gate (address, then amount), force       *)
(* checks (email, telegram, twitter, telephone, discord): the error is     *)
(* that of the first violated rule, and the warning is logged whenever the *)
(* presence check has passed and a webhook is supplied without a secret,   *)
(* also by a call that is then rejected for a webhook that is not https.   *)
(***************************************************************************)
C10_CheckOrder ==
    Called =>
        /\ Thrown = FirstViolated(options)
        /\ warnings = IF /\ ~PresenceViolated(options)
                         /\ Supplied(options.webhook)
                         /\ ~Supplied(options.secret)
                      THEN <<MsgSecret>>
                      ELSE <<>>

C10_Witness ==
    /\ Called
    /\ options.webhook = Str("http://example.com")
    /\ IsUndefined(options.secret)
    /\ IsTrue(options.token_gate)
    /\ warnings = <<MsgSecret>>
    /\ FailedWith(MsgScheme)

====
